---- MODULE Spec2Model ----
(***************************************************************************)
(* Model of src/main.py: the MyAssistant recognition loop (_run_task), its *)
(* event dispatcher (_process_event), the voicehat button callback         *)
(* (_on_button_pressed) and the command actions (power_off_pi, reboot_pi,  *)
(* say_ip, volume_down).                                                   *)
(*                                                                         *)
(* Two execution contexts are modelled: the background thread that runs    *)
(* _run_task and handles the Session's events one at a time, and the       *)
(* button thread that runs _on_button_pressed.  The Session (the Google    *)
(* Assistant library) is the environment: it produces events into the      *)
(* stream the loop iterates and records the requests made on it.           *)
(*                                                                         *)
(* Texts are TLA+ strings; Python's str operations (lower, in, replace,    *)
(* split, isdigit, int, str) are operators computed character by           *)
(* character.  print() calls write to stdout only and are not modelled.    *)
(***************************************************************************)
EXTENDS Integers, Sequences, FiniteSets, TLC

VARIABLES
    can_start_conversation, \* MyAssistant._can_start_conversation
    assistant,              \* MyAssistant._assistant: "None" or "Assistant"
    task,                   \* position of the thread running _run_task
    raised,                 \* the exception that ended the loop, if any
    exit_code,              \* process exit status, -1 while the process lives
    status,                 \* what the status UI shows
    on_press,               \* whether _on_button_pressed is registered
    tts_volume,             \* aiy.audio's TTS volume
    effects,                \* collaborator calls of the latest handled event
    button,                 \* position of the button callback
    last_request,           \* the latest request made on the Session
    session,                \* the Session (engine) state
    queue,                  \* events produced and not yet handled
    handled,                \* history: number of events handled
    last_event,             \* history: the latest handled event
    start_handled,          \* history: an ON_START_FINISHED has been handled
    last_lifecycle,         \* history: the latest handled lifecycle kind
    volume_before           \* history: the TTS volume before the latest event

vars == <<can_start_conversation, assistant, task, raised, exit_code, status,
          on_press, tts_volume, effects, button, last_request, session,
          queue, handled, last_event, start_handled, last_lifecycle,
          volume_before>>

(***************************************************************************)
(* Bounds of the model.                                                    *)
(***************************************************************************)
MaxEvents == 4

MaxQueue == 2

MaxPresses == 2

MaxPieces == 3

MaxVolumeEvents == 9

(***************************************************************************)
(* Python str operations.                                                  *)
(***************************************************************************)
UpperCase == "ABCDEFGHIJKLMNOPQRSTUVWXYZ"

LowerCase == "abcdefghijklmnopqrstuvwxyz"

Digits == "0123456789"

CharAt(s, i) == SubSeq(s, i, i)

\* str.lower() of one character, as a table.
LowerOf ==
    [c \in {CharAt(UpperCase, i) : i \in 1..Len(UpperCase)} |->
        CharAt(LowerCase, CHOOSE i \in 1..Len(UpperCase) : CharAt(UpperCase, i) = c)]

LowerChar(c) == IF c \in DOMAIN LowerOf THEN LowerOf[c] ELSE c

RECURSIVE Lower(_)
Lower(s) ==
    IF s = "" THEN ""
    ELSE LowerChar(CharAt(s, 1)) \o Lower(SubSeq(s, 2, Len(s)))

\* Python's `sub in s`.
Contains(sub, s) ==
    \E i \in 1..(Len(s) - Len(sub) + 1) : SubSeq(s, i, i + Len(sub) - 1) = sub

\* Index of the first occurrence of sub in s at or after i, 0 when there is
\* none.
RECURSIVE FindFrom(_, _, _)
FindFrom(sub, s, i) ==
    IF i + Len(sub) - 1 > Len(s) THEN 0
    ELSE IF SubSeq(s, i, i + Len(sub) - 1) = sub THEN i
    ELSE FindFrom(sub, s, i + 1)

Find(sub, s) == FindFrom(sub, s, 1)

\* Python's s.replace(old, new, 1).
ReplaceFirst(s, old, new) ==
    LET at == Find(old, s)
    IN  IF at = 0 THEN s
        ELSE SubSeq(s, 1, at - 1) \o new \o SubSeq(s, at + Len(old), Len(s))

\* Python's s.replace(c, '') for a single character c.
RECURSIVE RemoveChar(_, _)
RemoveChar(s, c) ==
    IF s = "" THEN ""
    ELSE (IF CharAt(s, 1) = c THEN "" ELSE CharAt(s, 1))
             \o RemoveChar(SubSeq(s, 2, Len(s)), c)

\* Python's s.split(): the maximal runs of non-whitespace characters.
RECURSIVE SplitFrom(_, _)
SplitFrom(s, word) ==
    IF s = "" THEN (IF word = "" THEN <<>> ELSE <<word>>)
    ELSE IF CharAt(s, 1) = " "
         THEN (IF word = "" THEN <<>> ELSE <<word>>)
                  \o SplitFrom(SubSeq(s, 2, Len(s)), "")
         ELSE SplitFrom(SubSeq(s, 2, Len(s)), word \o CharAt(s, 1))

Split(s) == SplitFrom(s, "")

\* The value of each decimal digit character.
DigitValue ==
    [c \in {CharAt(Digits, i) : i \in 1..Len(Digits)} |->
        (CHOOSE i \in 1..Len(Digits) : CharAt(Digits, i) = c) - 1]

\* Python's s.isdigit().
IsDigit(s) ==
    /\ s # ""
    /\ \A i \in 1..Len(s) : CharAt(s, i) \in DOMAIN DigitValue

\* Python's int(s) for an all-digit s.
RECURSIVE ParseInt(_)
ParseInt(s) ==
    IF s = "" THEN 0
    ELSE 10 * ParseInt(SubSeq(s, 1, Len(s) - 1)) + DigitValue[CharAt(s, Len(s))]

\* Python's str(n) for n >= 0.
RECURSIVE StrOfInt(_)
StrOfInt(n) ==
    IF n < 10 THEN CharAt(Digits, n + 1)
    ELSE StrOfInt(n \div 10) \o CharAt(Digits, (n % 10) + 1)

\* Truth value of a str in a boolean context.
Truthy(s) == s # ""

(***************************************************************************)
(* Events of the Session: EventType kinds and event.args.  has_args is the *)
(* truth value of event.args (False for None and for an empty dict).       *)
(***************************************************************************)
ON_START_FINISHED == "ON_START_FINISHED"

ON_CONVERSATION_TURN_STARTED == "ON_CONVERSATION_TURN_STARTED"

ON_RECOGNIZING_SPEECH_FINISHED == "ON_RECOGNIZING_SPEECH_FINISHED"

ON_END_OF_UTTERANCE == "ON_END_OF_UTTERANCE"

ON_CONVERSATION_TURN_FINISHED == "ON_CONVERSATION_TURN_FINISHED"

ON_ASSISTANT_ERROR == "ON_ASSISTANT_ERROR"

\* Kinds _process_event has no branch for.
OtherKinds == {"ON_RESPONDING_STARTED", "ON_NO_RESPONSE"}

Event(kind) == [kind |-> kind, has_args |-> FALSE, text |-> "", is_fatal |-> FALSE]

Recognized(text) ==
    [kind |-> ON_RECOGNIZING_SPEECH_FINISHED, has_args |-> TRUE,
     text |-> text, is_fatal |-> FALSE]

AssistantError(fatal) ==
    [kind |-> ON_ASSISTANT_ERROR, has_args |-> TRUE, text |-> "",
     is_fatal |-> fatal]

NoEvent == Event("none")

(***************************************************************************)
(* Calls on the collaborators, as recorded in effects.                     *)
(***************************************************************************)
StopConversation == [op |-> "stop_conversation", text |-> "", num |-> 0]

Say(text) == [op |-> "say", text |-> text, num |-> 0]

ShellCall(cmd) == [op |-> "subprocess.call", text |-> cmd, num |-> 0]

CheckOutput(cmd) == [op |-> "subprocess.check_output", text |-> cmd, num |-> 0]

SetTtsVolume(n) == [op |-> "set_tts_volume", text |-> "", num |-> n]

\* What a command does: its calls in order, the TTS volume it leaves and the
\* exception it raises ("none" when it returns).
Outcome(calls, volume, exc) == [calls |-> calls, volume |-> volume, raised |-> exc]

\* Outputs of "hostname -I | cut -d' ' -f1" (bytes decoded as utf-8).
HostnameOutputs == {"192.168.1.7\n", "\n"}

(***************************************************************************)
(* The command actions.                                                    *)
(***************************************************************************)
power_off_pi(volume) ==
    Outcome(<<Say("Good bye!"), ShellCall("sudo shutdown now")>>, volume, "none")

reboot_pi(volume) ==
    Outcome(<<Say("See you in a bit!"), ShellCall("sudo reboot")>>, volume, "none")

say_ip(volume, ip) ==
    Outcome(<<CheckOutput("hostname -I | cut -d' ' -f1"),
              Say("My IP address is " \o ip)>>, volume, "none")

\* Faulty variant of volume_down: the volume is not floored at 0.
volume_down_NoFloor(volume) ==
    Outcome(<<SetTtsVolume(volume - 2), Say("Ok, done")>>, volume - 2, "none")

volume_down(volume) ==
    IF volume < 2
    THEN Outcome(<<SetTtsVolume(0), Say("Ok, done")>>, 0, "none")
    ELSE Outcome(<<SetTtsVolume(volume - 2), Say("Ok, done")>>, volume - 2, "none")

\* Defined in the source; no rule of _process_event calls it.
volume_up(volume) ==
    IF volume > 98
    THEN Outcome(<<SetTtsVolume(100), Say("Ok, done")>>, 100, "none")
    ELSE Outcome(<<SetTtsVolume(volume + 2), Say("Ok, done")>>, volume + 2, "none")

\* Faulty variant of ToRepeat: every occurrence of 'repeat' is removed.
RECURSIVE RemoveEvery(_, _)
RemoveEvery(s, old) ==
    IF Find(old, s) = 0 THEN s ELSE RemoveEvery(ReplaceFirst(s, old, ""), old)

ToRepeat_All(text) == RemoveEvery(text, "repeat")

\* text.replace('repeat', '', 1) of the lowercased text.
ToRepeat(text) == ReplaceFirst(text, "repeat", "")

\* Faulty variant of VolumeNumbers: '%' is not removed before the split.
VolumeNumbers_KeepsPercent(text) ==
    LET numerals == SelectSeq(Split(text), IsDigit)
    IN  [i \in 1..Len(numerals) |-> ParseInt(numerals[i])]

\* [int(s) for s in text.replace('%', '').split() if s.isdigit()]
VolumeNumbers(text) ==
    LET numerals == SelectSeq(Split(RemoveChar(text, "%")), IsDigit)
    IN  [i \in 1..Len(numerals) |-> ParseInt(numerals[i])]

\* Faulty variant of set_secondary_volume: a text without a number is
\* skipped instead of raising.
set_secondary_volume_Guarded(text, volume) ==
    LET numbers == VolumeNumbers(text)
    IN  IF numbers = <<>>
        THEN Outcome(<<>>, volume, "none")
        ELSE Outcome(<<Say("Ok, I've set the secondary volume to"
                               \o StrOfInt(numbers[1]) \o "%"),
                       SetTtsVolume(numbers[1])>>,
                     numbers[1], "none")

\* The "secondary volume to" branch after its stop_conversation(): volume[0]
\* raises IndexError when the text holds no number.
set_secondary_volume(text, volume) ==
    LET numbers == VolumeNumbers(text)
    IN  IF numbers = <<>>
        THEN Outcome(<<>>, volume, "IndexError")
        ELSE Outcome(<<Say("Ok, I've set the secondary volume to"
                               \o StrOfInt(numbers[1]) \o "%"),
                       SetTtsVolume(numbers[1])>>,
                     numbers[1], "none")

\* Faulty variant of Command: the 'repeat' rule is tested before the
\* 'ip address' rule.
Command_RepeatFirst(text) ==
    IF text = "power off" THEN "power off"
    ELSE IF text = "reboot" THEN "reboot"
    ELSE IF Contains("repeat", text) THEN "repeat"
    ELSE IF Truthy("what is") /\ Contains("ip address", text) THEN "ip address"
    ELSE IF Truthy("set") /\ Contains("secondary volume to", text)
         THEN "secondary volume to"
    ELSE IF Contains("secondary volume down", text) THEN "secondary volume down"
    ELSE IF Contains("secondary volume up", text) THEN "secondary volume up"
    ELSE "none"

\* Faulty variant of Command: 'power off' is matched by containment.
Command_ContainsPowerOff(text) ==
    IF Contains("power off", text) THEN "power off"
    ELSE IF text = "reboot" THEN "reboot"
    ELSE IF Truthy("what is") /\ Contains("ip address", text) THEN "ip address"
    ELSE IF Contains("repeat", text) THEN "repeat"
    ELSE IF Truthy("set") /\ Contains("secondary volume to", text)
         THEN "secondary volume to"
    ELSE IF Contains("secondary volume down", text) THEN "secondary volume down"
    ELSE IF Contains("secondary volume up", text) THEN "secondary volume up"
    ELSE "none"

\* The if/elif chain over the lowercased text: the rule that fires, "none"
\* when no rule matches.
Command(text) ==
    IF text = "power off" THEN "power off"
    ELSE IF text = "reboot" THEN "reboot"
    ELSE IF Truthy("what is") /\ Contains("ip address", text) THEN "ip address"
    ELSE IF Contains("repeat", text) THEN "repeat"
    ELSE IF Truthy("set") /\ Contains("secondary volume to", text)
         THEN "secondary volume to"
    ELSE IF Contains("secondary volume down", text) THEN "secondary volume down"
    ELSE IF Contains("secondary volume up", text) THEN "secondary volume up"
    ELSE "none"

\* Faulty variant of CommandAction: "secondary volume up" calls volume_up.
CommandAction_UpRaises(rule, text, volume, ip) ==
    CASE rule = "power off" -> power_off_pi(volume)
      [] rule = "reboot" -> reboot_pi(volume)
      [] rule = "ip address" -> say_ip(volume, ip)
      [] rule = "repeat" -> Outcome(<<Say(ToRepeat(text))>>, volume, "none")
      [] rule = "secondary volume to" -> set_secondary_volume(text, volume)
      [] rule = "secondary volume down" -> volume_down(volume)
      [] rule = "secondary volume up" -> volume_up(volume)

\* The action a rule runs after its stop_conversation() request.
CommandAction(rule, text, volume, ip) ==
    CASE rule = "power off" -> power_off_pi(volume)
      [] rule = "reboot" -> reboot_pi(volume)
      [] rule = "ip address" -> say_ip(volume, ip)
      [] rule = "repeat" -> Outcome(<<Say(ToRepeat(text))>>, volume, "none")
      [] rule = "secondary volume to" -> set_secondary_volume(text, volume)
      [] rule = "secondary volume down" -> volume_down(volume)
      [] rule = "secondary volume up" -> volume_down(volume)

\* Faulty variant of RecognizedSpeech: the text is not lowercased.
RecognizedSpeech_NoLower(said, volume, ip) ==
    LET rule == Command(said)
        done == CommandAction(rule, said, volume, ip)
    IN  IF rule = "none" THEN Outcome(<<>>, volume, "none")
        ELSE Outcome(<<StopConversation>> \o done.calls, done.volume, done.raised)

\* Faulty variant of RecognizedSpeech: stop_conversation() is requested
\* after the action instead of before it.
RecognizedSpeech_StopLast(said, volume, ip) ==
    LET text == Lower(said)
        rule == Command(text)
        done == CommandAction(rule, text, volume, ip)
    IN  IF rule = "none" THEN Outcome(<<>>, volume, "none")
        ELSE Outcome(done.calls \o <<StopConversation>>, done.volume, done.raised)

\* The ON_RECOGNIZING_SPEECH_FINISHED branch for event.args['text'] = said.
RecognizedSpeech(said, volume, ip) ==
    LET text == Lower(said)
        rule == Command(text)
        done == CommandAction(rule, text, volume, ip)
    IN  IF rule = "none" THEN Outcome(<<>>, volume, "none")
        ELSE Outcome(<<StopConversation>> \o done.calls, done.volume, done.raised)

(***************************************************************************)
(* Inputs: the recognized texts the Session may deliver.                   *)
(***************************************************************************)
\* Texts of the specification with the button (Spec).
Texts ==
    {"power off", "Set secondary volume to 42%", "secondary volume to loud",
     "hello"}

\* Texts of the specification of the commands (SpecText): every
\* concatenation of at most MaxPieces pieces.
Pieces ==
    {"Power Off", "reboot", "ip address", "repeat", " secondary volume to ",
     "secondary volume down", "secondary volume up", "07 ", "150%"}

RECURSIVE TextsOf(_)
TextsOf(n) ==
    IF n = 0 THEN {""}
    ELSE TextsOf(n - 1) \cup {t \o p : t \in TextsOf(n - 1), p \in Pieces}

TextInputs == TextsOf(MaxPieces)

\* Texts of the specification of the volume commands (SpecVolume).
VolumeTexts ==
    {"secondary volume down", "Secondary volume UP", "set secondary volume to 1",
     "set secondary volume to 99%", "Set secondary volume to 150%",
     "secondary volume to max"}

(***************************************************************************)
(* The state after module import and MyAssistant.__init__.                 *)
(***************************************************************************)
InitialTtsVolume == 2

NoRequest == [by |-> "none", op |-> "none", turn_active |-> FALSE, session_open |-> FALSE]

Init ==
    /\ can_start_conversation = FALSE
    /\ assistant = "None"
    /\ task = "created"
    /\ raised = "none"
    /\ exit_code = -1
    /\ status = "unset"
    /\ on_press = FALSE
    /\ tts_volume = InitialTtsVolume
    /\ effects = <<>>
    /\ button = [pc |-> "idle", saw |-> FALSE, presses |-> 0, requests |-> 0]
    /\ last_request = NoRequest
    /\ session = [open |-> FALSE, started |-> FALSE, turn |-> FALSE,
                  recognized |-> FALSE, ended |-> FALSE, produced |-> 0,
                  teardowns |-> 0]
    /\ queue = <<>>
    /\ handled = 0
    /\ last_event = NoEvent
    /\ start_handled = FALSE
    /\ last_lifecycle = "none"
    /\ volume_before = InitialTtsVolume

(***************************************************************************)
(* The Session: it produces the events of assistant.start().  The first    *)
(* event is ON_START_FINISHED; a turn starts (hot word, or a request) only *)
(* when none is active and ends with ON_CONVERSATION_TURN_FINISHED.        *)
(***************************************************************************)
CanProduceWithin(limit) ==
    /\ session.open
    /\ ~session.ended
    /\ session.produced < limit
    /\ Len(queue) < MaxQueue

CanProduce == CanProduceWithin(MaxEvents)

ProduceWithin(ev, next_session, limit) ==
    /\ CanProduceWithin(limit)
    /\ queue' = Append(queue, ev)
    /\ session' = [next_session EXCEPT !.produced = session.produced + 1]
    /\ UNCHANGED <<can_start_conversation, assistant, task, raised, exit_code,
                   status, on_press, tts_volume, effects, button, last_request,
                   handled, last_event, start_handled, last_lifecycle,
                   volume_before>>

Produce(ev, next_session) == ProduceWithin(ev, next_session, MaxEvents)

EngineStartFinished ==
    /\ ~session.started
    /\ Produce(Event(ON_START_FINISHED), [session EXCEPT !.started = TRUE])

EngineTurnStarted ==
    /\ session.started
    /\ ~session.turn
    /\ Produce(Event(ON_CONVERSATION_TURN_STARTED),
               [session EXCEPT !.turn = TRUE, !.recognized = FALSE])

EngineEndOfUtterance ==
    /\ session.turn
    /\ ~session.recognized
    /\ Produce(Event(ON_END_OF_UTTERANCE), session)

EngineRecognized(texts) ==
    /\ CanProduce
    /\ session.turn
    /\ ~session.recognized
    /\ \E ev \in {Recognized(t) : t \in texts}
                     \cup {Event(ON_RECOGNIZING_SPEECH_FINISHED)} :
           Produce(ev, [session EXCEPT !.recognized = TRUE])

EngineTurnFinished ==
    /\ session.turn
    /\ Produce(Event(ON_CONVERSATION_TURN_FINISHED),
               [session EXCEPT !.turn = FALSE])

EngineError ==
    /\ session.started
    /\ \E ev \in {AssistantError(TRUE), AssistantError(FALSE),
                  Event(ON_ASSISTANT_ERROR)} :
           Produce(ev, session)

EngineOther ==
    /\ session.started
    /\ \E k \in OtherKinds : Produce(Event(k), session)

\* The event sequence ends (the engine disconnects).
EngineDisconnect ==
    /\ session.open
    /\ ~session.ended
    /\ session' = [session EXCEPT !.ended = TRUE]
    /\ UNCHANGED <<can_start_conversation, assistant, task, raised, exit_code,
                   status, on_press, tts_volume, effects, button, last_request,
                   queue, handled, last_event, start_handled, last_lifecycle,
                   volume_before>>

(***************************************************************************)
(* The background thread: start(), _run_task and _process_event.           *)
(***************************************************************************)
\* main() -> MyAssistant().start(): the thread runs _run_task up to the loop.
Start ==
    /\ task = "created"
    /\ task' = "looping"
    /\ assistant' = "Assistant"
    /\ session' = [session EXCEPT !.open = TRUE]
    /\ UNCHANGED <<can_start_conversation, raised, exit_code, status, on_press,
                   tts_volume, effects, button, last_request, queue, handled,
                   last_event, start_handled, last_lifecycle,
                   volume_before>>

\* Faulty variant of ReadinessAfter: ON_CONVERSATION_TURN_STARTED does not
\* clear the flag.
ReadinessAfter_KeepsOnTurnStart(ev, flag) ==
    IF ev.kind = ON_START_FINISHED THEN TRUE
    ELSE IF ev.kind = ON_CONVERSATION_TURN_FINISHED THEN TRUE
    ELSE flag

\* Faulty variant of ReadinessAfter: ON_END_OF_UTTERANCE sets the flag.
ReadinessAfter_SetOnEndOfUtterance(ev, flag) ==
    IF ev.kind = ON_START_FINISHED THEN TRUE
    ELSE IF ev.kind = ON_CONVERSATION_TURN_STARTED THEN FALSE
    ELSE IF ev.kind = ON_CONVERSATION_TURN_FINISHED THEN TRUE
    ELSE IF ev.kind = ON_END_OF_UTTERANCE THEN TRUE
    ELSE flag

\* self._can_start_conversation after _process_event(ev).
ReadinessAfter(ev, flag) ==
    IF ev.kind = ON_START_FINISHED THEN TRUE
    ELSE IF ev.kind = ON_CONVERSATION_TURN_STARTED THEN FALSE
    ELSE IF ev.kind = ON_CONVERSATION_TURN_FINISHED THEN TRUE
    ELSE flag

\* Faulty variant of StatusAfter: ON_END_OF_UTTERANCE shows 'listening'.
StatusAfter_ListeningOnEndOfUtterance(ev, shown) ==
    IF ev.kind = ON_START_FINISHED THEN "ready"
    ELSE IF ev.kind = ON_CONVERSATION_TURN_STARTED THEN "listening"
    ELSE IF ev.kind = ON_RECOGNIZING_SPEECH_FINISHED /\ ev.has_args THEN shown
    ELSE IF ev.kind = ON_END_OF_UTTERANCE THEN "listening"
    ELSE IF ev.kind = ON_CONVERSATION_TURN_FINISHED THEN "ready"
    ELSE shown

\* What the status UI shows after _process_event(ev).
StatusAfter(ev, shown) ==
    IF ev.kind = ON_START_FINISHED THEN "ready"
    ELSE IF ev.kind = ON_CONVERSATION_TURN_STARTED THEN "listening"
    ELSE IF ev.kind = ON_RECOGNIZING_SPEECH_FINISHED /\ ev.has_args THEN shown
    ELSE IF ev.kind = ON_END_OF_UTTERANCE THEN "thinking"
    ELSE IF ev.kind = ON_CONVERSATION_TURN_FINISHED THEN "ready"
    ELSE shown

\* Whether _process_event(ev) calls get_button().on_press(...).
RegistersButton(ev) ==
    ev.kind \in {ON_START_FINISHED, ON_CONVERSATION_TURN_STARTED}

\* Faulty variant of IsFatalError: event.args['is_fatal'] is not consulted.
IsFatalError_AnyError(ev) ==
    ev.kind = ON_ASSISTANT_ERROR /\ ev.has_args

\* The guard of the sys.exit(1) branch.
IsFatalError(ev) ==
    ev.kind = ON_ASSISTANT_ERROR /\ ev.has_args /\ ev.is_fatal

\* The commands branch of _process_event(ev).
SpeechOutcome(ev, volume, ip) ==
    IF ev.kind = ON_RECOGNIZING_SPEECH_FINISHED /\ ev.has_args
    THEN RecognizedSpeech(ev.text, volume, ip)
    ELSE Outcome(<<>>, volume, "none")

\* The exception _process_event(ev) leaves the loop with ("none" if it
\* returns), given what its commands branch raised.
RaisedBy(ev, exc) == IF IsFatalError(ev) THEN "SystemExit" ELSE exc

\* One iteration of the for loop: _process_event on the next event.
ProcessEvent ==
    /\ task = "looping"
    /\ queue # <<>>
    /\ \E out \in {SpeechOutcome(Head(queue), tts_volume, ip) : ip \in HostnameOutputs} :
         LET ev == Head(queue)
             exc == RaisedBy(ev, out.raised)
         IN  /\ queue' = Tail(queue)
             /\ can_start_conversation' = ReadinessAfter(ev, can_start_conversation)
             /\ status' = StatusAfter(ev, status)
             /\ on_press' = (on_press \/ RegistersButton(ev))
             /\ tts_volume' = out.volume
             /\ effects' = out.calls
             /\ raised' = exc
             /\ task' = IF exc = "none" THEN "looping" ELSE "unwinding"
             /\ last_request' =
                    IF out.calls # <<>> /\ Head(out.calls) = StopConversation
                    THEN [by |-> "dispatcher", op |-> "stop_conversation",
                          turn_active |-> session.turn,
                          session_open |-> session.open]
                    ELSE last_request
             /\ handled' = handled + 1
             /\ last_event' = ev
             /\ start_handled' = (start_handled \/ ev.kind = ON_START_FINISHED)
             /\ last_lifecycle' =
                    IF ev.kind \in {ON_START_FINISHED, ON_CONVERSATION_TURN_STARTED,
                                    ON_CONVERSATION_TURN_FINISHED}
                    THEN ev.kind ELSE last_lifecycle
             /\ volume_before' = tts_volume
    /\ UNCHANGED <<assistant, exit_code, button, session>>

\* The event sequence has ended: the for loop finishes.
LoopExhausted ==
    /\ task = "looping"
    /\ queue = <<>>
    /\ session.ended
    /\ task' = "unwinding"
    /\ UNCHANGED <<can_start_conversation, assistant, raised, exit_code, status,
                   on_press, tts_volume, effects, button, last_request, session,
                   queue, handled, last_event, start_handled, last_lifecycle,
                   volume_before>>

\* Faulty variant of Teardown: the Session is closed only when the loop
\* ended without an exception.
Teardown_OnlyOnReturn ==
    /\ task = "unwinding"
    /\ task' = "finished"
    /\ session' = IF raised = "none"
                  THEN [session EXCEPT !.open = FALSE,
                                       !.teardowns = session.teardowns + 1]
                  ELSE session
    /\ UNCHANGED <<can_start_conversation, assistant, raised, exit_code, status,
                   on_press, tts_volume, effects, button, last_request, queue,
                   handled, last_event, start_handled, last_lifecycle,
                   volume_before>>

\* Leaving the with block: Assistant.__exit__ tears the Session down; then
\* the thread ends (threading drops a SystemExit and reports other errors).
Teardown ==
    /\ task = "unwinding"
    /\ task' = "finished"
    /\ session' = [session EXCEPT !.open = FALSE,
                                  !.teardowns = session.teardowns + 1]
    /\ UNCHANGED <<can_start_conversation, assistant, raised, exit_code, status,
                   on_press, tts_volume, effects, button, last_request, queue,
                   handled, last_event, start_handled, last_lifecycle,
                   volume_before>>

\* The exit status of the process once its only non-daemon thread has ended:
\* main() returned normally and an exception in the thread ends the thread only.
ExitStatus(exc) == 0

ProcessExit ==
    /\ task = "finished"
    /\ exit_code = -1
    /\ exit_code' = ExitStatus(raised)
    /\ UNCHANGED <<can_start_conversation, assistant, task, raised, status,
                   on_press, tts_volume, effects, button, last_request, session,
                   queue, handled, last_event, start_handled, last_lifecycle,
                   volume_before>>

(***************************************************************************)
(* The button thread: _on_button_pressed, split at its read of the flag.   *)
(***************************************************************************)
\* Faulty variant of ButtonRequest: the two branches swapped.
ButtonRequest_Inverted(flag) ==
    IF flag THEN "stop_conversation" ELSE "start_conversation"

\* The request _on_button_pressed makes for the flag value it read.
ButtonRequest(flag) ==
    IF flag THEN "start_conversation" ELSE "stop_conversation"

\* A press: the callback starts and reads self._can_start_conversation.
ButtonPressed ==
    /\ on_press
    /\ exit_code = -1
    /\ button.pc = "idle"
    /\ button.presses < MaxPresses
    /\ button' = [button EXCEPT !.pc = "read", !.saw = can_start_conversation,
                                !.presses = button.presses + 1]
    /\ UNCHANGED <<can_start_conversation, assistant, task, raised, exit_code,
                   status, on_press, tts_volume, effects, last_request, session,
                   queue, handled, last_event, start_handled, last_lifecycle,
                   volume_before>>

\* The callback calls self._assistant.start_conversation() or
\* stop_conversation(); with self._assistant None it raises AttributeError.
ButtonCall ==
    /\ exit_code = -1
    /\ button.pc = "read"
    /\ IF assistant = "None"
       THEN /\ button' = [button EXCEPT !.pc = "AttributeError"]
            /\ UNCHANGED last_request
       ELSE /\ button' = [button EXCEPT !.pc = "idle",
                                        !.requests = button.requests + 1]
            /\ last_request' = [by |-> "button", op |-> ButtonRequest(button.saw),
                                turn_active |-> session.turn,
                                session_open |-> session.open]
    /\ UNCHANGED <<can_start_conversation, assistant, task, raised, exit_code,
                   status, on_press, tts_volume, effects, session, queue,
                   handled, last_event, start_handled, last_lifecycle,
                   volume_before>>

(***************************************************************************)
(* Specifications.                                                         *)
(***************************************************************************)
Next ==
    \/ Start
    \/ EngineStartFinished
    \/ EngineTurnStarted
    \/ EngineEndOfUtterance
    \/ EngineRecognized(Texts)
    \/ EngineTurnFinished
    \/ EngineError
    \/ EngineOther
    \/ EngineDisconnect
    \/ ProcessEvent
    \/ LoopExhausted
    \/ Teardown
    \/ ProcessExit
    \/ ButtonPressed
    \/ ButtonCall

Spec == Init /\ [][Next]_vars

\* The commands on their own: no button, a Session that stays connected and
\* delivers a recognized text only when the loop is waiting for it.
NextText ==
    \/ Start
    \/ EngineStartFinished
    \/ EngineTurnStarted
    \/ (queue = <<>> /\ EngineRecognized(TextInputs))
    \/ EngineTurnFinished
    \/ ProcessEvent
    \/ Teardown
    \/ ProcessExit

SpecText == Init /\ [][NextText]_vars

\* Sequences of volume commands: no button, and the Session produces its
\* next event (of up to MaxVolumeEvents) only when the loop is waiting.
StepStartFinished ==
    /\ queue = <<>>
    /\ ~session.started
    /\ ProduceWithin(Event(ON_START_FINISHED),
                     [session EXCEPT !.started = TRUE], MaxVolumeEvents)

StepTurnStarted ==
    /\ queue = <<>>
    /\ session.started
    /\ ~session.turn
    /\ ProduceWithin(Event(ON_CONVERSATION_TURN_STARTED),
                     [session EXCEPT !.turn = TRUE, !.recognized = FALSE],
                     MaxVolumeEvents)

StepRecognized ==
    /\ queue = <<>>
    /\ session.turn
    /\ ~session.recognized
    /\ \E t \in VolumeTexts :
           ProduceWithin(Recognized(t), [session EXCEPT !.recognized = TRUE],
                         MaxVolumeEvents)

StepTurnFinished ==
    /\ queue = <<>>
    /\ session.turn
    /\ session.recognized
    /\ ProduceWithin(Event(ON_CONVERSATION_TURN_FINISHED),
                     [session EXCEPT !.turn = FALSE], MaxVolumeEvents)

NextVolume ==
    \/ Start
    \/ StepStartFinished
    \/ StepTurnStarted
    \/ StepRecognized
    \/ StepTurnFinished
    \/ ProcessEvent
    \/ Teardown
    \/ ProcessExit

SpecVolume == Init /\ [][NextVolume]_vars

(***************************************************************************)
(* Properties.                                                             *)
(***************************************************************************)
IsRecognizedText(ev) == ev.kind = ON_RECOGNIZING_SPEECH_FINISHED /\ ev.has_args

IsFatal(ev) == ev.kind = ON_ASSISTANT_ERROR /\ ev.has_args /\ ev.is_fatal

\* The latest step handled an event.
Handles == handled' = handled + 1

C1_ValueOf(kind) ==
    CASE kind = ON_START_FINISHED -> TRUE
      [] kind = ON_CONVERSATION_TURN_STARTED -> FALSE
      [] kind = ON_CONVERSATION_TURN_FINISHED -> TRUE
      [] OTHER -> FALSE

\* C1: whatever the interleaving of handled events and button callbacks,
\* the readiness flag is false until the first ON_START_FINISHED is handled,
\* and afterwards it is the value set by the most recently handled event
\* among ON_START_FINISHED (true), ON_CONVERSATION_TURN_STARTED (false) and
\* ON_CONVERSATION_TURN_FINISHED (true).
C1_ReadinessFollowsLifecycle ==
    IF start_handled
    THEN can_start_conversation = C1_ValueOf(last_lifecycle)
    ELSE can_start_conversation = FALSE

\* C1 witness: a turn has started and finished while the button callback
\* made requests, and the flag is true again.
C1_Witness ==
    /\ last_lifecycle = ON_CONVERSATION_TURN_FINISHED
    /\ can_start_conversation
    /\ button.requests > 0
    /\ last_request.by = "button"
    /\ last_request.op = "stop_conversation"

C2_ButtonState ==
    /\ button.pc \in {"idle", "read"}
    /\ button.presses = button.requests + (IF button.pc = "read" THEN 1 ELSE 0)

C2_ButtonStep ==
    /\ (button.pc = "idle" /\ button'.pc # "idle") =>
           /\ button'.pc = "read"
           /\ button'.saw = can_start_conversation
           /\ last_request' = last_request
    /\ (button.pc = "read" /\ button'.pc # "read") =>
           /\ button'.pc = "idle"
           /\ button'.requests = button.requests + 1
           /\ last_request'.by = "button"
           /\ last_request'.op = (IF button.saw THEN "start_conversation"
                                  ELSE "stop_conversation")
    /\ (button' # button) =>
           UNCHANGED <<task, raised, exit_code, queue, session, handled,
                       can_start_conversation, status>>
    /\ (button' = button /\ last_request' # last_request) =>
           last_request'.by = "dispatcher"

\* C2: every invocation of the button callback makes exactly one request on
\* the Session, start_conversation() if the flag was true when the callback
\* read it and stop_conversation() otherwise; the callback never fails and
\* its steps leave the loop, the event stream and the Session as they are,
\* so the dispatcher goes on handling the events.
C2_ButtonOneRequest == []C2_ButtonState /\ [][C2_ButtonStep]_vars

\* C2 witness: two invocations completed, the latest one requested a start,
\* and the dispatcher has handled events in between.
C2_Witness ==
    /\ button.requests >= 2
    /\ button.pc = "idle"
    /\ last_request.by = "button"
    /\ last_request.op = "start_conversation"
    /\ handled >= 3
    /\ task = "looping"

\* C3: start_conversation() is never requested while a turn is active on
\* the Session (after it produced ON_CONVERSATION_TURN_STARTED and before it
\* produced the matching ON_CONVERSATION_TURN_FINISHED).
C3_NoStartDuringTurn ==
    ~(last_request.op = "start_conversation" /\ last_request.turn_active)

C4_Expected(kind, shown) ==
    CASE kind = ON_START_FINISHED -> "ready"
      [] kind = ON_CONVERSATION_TURN_STARTED -> "listening"
      [] kind = ON_END_OF_UTTERANCE -> "thinking"
      [] kind = ON_CONVERSATION_TURN_FINISHED -> "ready"
      [] OTHER -> shown

\* C4: the status shown changes only when an event is handled, and handling
\* an event leaves it at ready for ON_START_FINISHED, listening for
\* ON_CONVERSATION_TURN_STARTED, thinking for ON_END_OF_UTTERANCE, ready for
\* ON_CONVERSATION_TURN_FINISHED and unchanged for every other kind; button
\* callback steps never change it.
C4_StatusTable ==
    [][IF Handles
       THEN status' = C4_Expected(Head(queue).kind, status)
       ELSE status' = status]_vars

\* C4 witness: a recognized text and a button request left 'thinking' shown.
C4_Witness ==
    /\ status = "thinking"
    /\ IsRecognizedText(last_event)
    /\ button.requests > 0

C5_State ==
    /\ IsFatal(last_event) => (task \in {"unwinding", "finished"} /\ raised = "SystemExit")
    /\ (last_event.kind = ON_ASSISTANT_ERROR /\ ~IsFatal(last_event)) =>
           /\ raised = "none"
           /\ task # "looping" => (session.ended /\ queue = <<>>)

C5_Step ==
    /\ IsFatal(last_event) => handled' = handled
    /\ (Handles /\ Head(queue).kind = ON_ASSISTANT_ERROR /\ ~IsFatal(Head(queue))) =>
           (task' = "looping" /\ exit_code' = -1)
    /\ (Handles /\ last_event.kind = ON_ASSISTANT_ERROR) =>
           (~IsFatal(last_event) /\ last_event' = Head(queue))

\* C5: handling a fatal ON_ASSISTANT_ERROR ends the loop with SystemExit and
\* no event is handled after it; handling an ON_ASSISTANT_ERROR whose
\* is_fatal is false or whose args are absent ends nothing: the loop goes on
\* and handles the next event of the stream.
C5_FatalErrorEndsHandling == []C5_State /\ [][C5_Step]_vars

\* C5 witness: the process has ended after a fatal error while an event
\* produced after it is still unhandled.
C5_Witness ==
    /\ IsFatal(last_event)
    /\ queue # <<>>
    /\ exit_code # -1

\* C6: the exit status tells the two ends apart: 1 after a fatal
\* ON_ASSISTANT_ERROR (sys.exit(1)), 0 when the event stream ended.
C6_ExitCodeDistinguishes ==
    exit_code # -1 => exit_code = (IF raised = "SystemExit" THEN 1 ELSE 0)

\* C7: a recognized text that lowercases to "power off" requests
\* stop_conversation() once, then runs the power-off action once (say
\* 'Good bye!', then the shutdown command), and nothing else.
C7_PowerOff ==
    (IsRecognizedText(last_event) /\ Lower(last_event.text) = "power off") =>
        effects = <<StopConversation, Say("Good bye!"),
                    ShellCall("sudo shutdown now")>>

\* C7 witness: "Power Off" was handled and powered the device off.
C7_Witness ==
    /\ last_event = Recognized("Power Off")
    /\ effects = <<StopConversation, Say("Good bye!"),
                   ShellCall("sudo shutdown now")>>

\* The text fires no rule before 'repeat'.
BeforeRepeat(text) ==
    /\ text # "power off"
    /\ text # "reboot"
    /\ ~Contains("ip address", text)

\* The all-digit words of the text once '%' is removed.
C8_Numerals(text) == SelectSeq(Split(RemoveChar(text, "%")), IsDigit)

\* C8: for a recognized text that contains "secondary volume to", fires no
\* earlier rule and whose first all-digit word after removing '%' is N,
\* handling the event sets the TTS volume to N and speaks one confirmation
\* that contains N.
C8_SetVolume ==
    LET text == Lower(last_event.text)
    IN  (/\ IsRecognizedText(last_event)
         /\ Contains("secondary volume to", text)
         /\ BeforeRepeat(text)
         /\ ~Contains("repeat", text)
         /\ C8_Numerals(text) # <<>>) =>
            LET n == ParseInt(C8_Numerals(text)[1])
            IN  /\ tts_volume = n
                /\ Len(effects) = 3
                /\ effects[1] = StopConversation
                /\ effects[2].op = "say"
                /\ Contains(StrOfInt(n), effects[2].text)
                /\ effects[3] = SetTtsVolume(n)
                /\ raised = "none"

\* C8 witness: of the two numbers 07 and 150 the first one, 7, was set.
C8_Witness ==
    /\ last_event = Recognized(" secondary volume to 07 150%")
    /\ tts_volume = 7
    /\ effects[2] = Say("Ok, I've set the secondary volume to7%")

\* said is text with its first occurrence of "repeat" removed and every
\* other character kept.
C9_FirstRemoved(text, said) ==
    \E i \in 1..(Len(text) - 5) :
        /\ SubSeq(text, i, i + 5) = "repeat"
        /\ \A j \in 1..(i - 1) : SubSeq(text, j, j + 5) # "repeat"
        /\ said = SubSeq(text, 1, i - 1) \o SubSeq(text, i + 6, Len(text))

C9_FiresRepeat(ev) ==
    /\ IsRecognizedText(ev)
    /\ Contains("repeat", Lower(ev.text))
    /\ BeforeRepeat(Lower(ev.text))

\* C9 as stated: for a recognized text that contains "repeat" and fires no
\* earlier rule, the dispatcher speaks once, and what it speaks is the
\* original recognized text with the first "repeat" removed.
C9_SpeaksOriginal ==
    C9_FiresRepeat(last_event) =>
        /\ effects = <<StopConversation, Say(effects[2].text)>>
        /\ C9_FirstRemoved(last_event.text, effects[2].text)

\* C9 amended: the dispatcher speaks once, and what it speaks is the
\* lowercased recognized text with the first "repeat" removed and every
\* other character of the lowercased text kept.
C9_SpeaksLowercased ==
    C9_FiresRepeat(last_event) =>
        /\ Len(effects) = 2
        /\ effects[1] = StopConversation
        /\ effects[2].op = "say"
        /\ C9_FirstRemoved(Lower(last_event.text), effects[2].text)

\* C9 witness: a text with capitals and two occurrences of "repeat".
C9_Witness ==
    /\ last_event = Recognized("Power Offrepeatrepeat")
    /\ effects = <<StopConversation, Say("power offrepeat")>>

\* C10: the loop is left only when the event sequence has ended or a fatal
\* ON_ASSISTANT_ERROR has been handled.
C10_LoopEndsOnlyOnEndOrFatal ==
    task \in {"unwinding", "finished"} =>
        \/ (raised = "SystemExit" /\ IsFatal(last_event))
        \/ (raised = "none" /\ session.ended /\ queue = <<>>)

\* C11: on every path by which the recognition loop exits after the Session
\* was opened (the event sequence ended, the fatal-error exit, or an error
\* raised while handling an event) the Session is torn down exactly once,
\* and it is never torn down while the loop is still handling events.
C11_TornDownOnceAfterLoop ==
    /\ session.teardowns = (IF task = "finished" THEN 1 ELSE 0)
    /\ task = "finished" => ~session.open
    /\ task \in {"looping", "unwinding"} => session.open

\* C11 witness: the loop was ended by the IndexError of a volume command
\* while an event was still waiting, and the Session has been torn down.
C11_Witness ==
    /\ task = "finished"
    /\ raised = "IndexError"
    /\ queue # <<>>
    /\ session.teardowns = 1
    /\ ~session.open

\* A rule of the dispatcher matches the lowercased text.
C12_Matches(text) ==
    \/ text = "power off"
    \/ text = "reboot"
    \/ Contains("ip address", text)
    \/ Contains("repeat", text)
    \/ Contains("secondary volume to", text)
    \/ Contains("secondary volume down", text)
    \/ Contains("secondary volume up", text)

\* C12: for every recognized text that matches a command rule, handling the
\* event requests stop_conversation() exactly once and before any side
\* effect of the command (speech, volume change, OS command); no side
\* effect ever precedes its stop request.
C12_StopFirstOnce ==
    /\ (IsRecognizedText(last_event) /\ C12_Matches(Lower(last_event.text))) =>
           /\ effects # <<>>
           /\ Head(effects) = StopConversation
           /\ \A i \in 2..Len(effects) : effects[i] # StopConversation
    /\ effects # <<>> => Head(effects) = StopConversation

\* C12 witness: "Power Off" was handled: the stop request, then the speech
\* and the shutdown command.
C12_Witness ==
    /\ last_event = Recognized("Power Off")
    /\ effects = <<StopConversation, Say("Good bye!"),
                   ShellCall("sudo shutdown now")>>

\* The rules in the order of the if/elif chain, and the action of each.
C13_RuleMatches(i, text) ==
    CASE i = 1 -> text = "power off"
      [] i = 2 -> text = "reboot"
      [] i = 3 -> Contains("ip address", text)
      [] i = 4 -> Contains("repeat", text)
      [] i = 5 -> Contains("secondary volume to", text)
      [] i = 6 -> Contains("secondary volume down", text)
      [] i = 7 -> Contains("secondary volume up", text)

C13_FirstRule(text) ==
    IF \E i \in 1..7 : C13_RuleMatches(i, text)
    THEN CHOOSE i \in 1..7 :
             /\ C13_RuleMatches(i, text)
             /\ \A j \in 1..(i - 1) : ~C13_RuleMatches(j, text)
    ELSE 0

\* Rule 7 runs volume_down() as rule 6 does (line 149).
C13_ActionOf(i) ==
    CASE i = 0 -> "none"
      [] i = 1 -> "power_off_pi"
      [] i = 2 -> "reboot_pi"
      [] i = 3 -> "say_ip"
      [] i = 4 -> "say to_repeat"
      [] i = 5 -> "set volume"
      [] i = 6 -> "volume_down"
      [] i = 7 -> "volume_down"

\* The actions visible in the calls of the latest handled event.
C13_Fired ==
    {a \in {"power_off_pi", "reboot_pi", "say_ip", "say to_repeat",
            "set volume", "volume_down"} :
        CASE a = "power_off_pi" ->
                 /\ Len(effects) = 3
                 /\ effects[2] = Say("Good bye!")
                 /\ effects[3] = ShellCall("sudo shutdown now")
          [] a = "reboot_pi" ->
                 /\ Len(effects) = 3
                 /\ effects[2] = Say("See you in a bit!")
                 /\ effects[3] = ShellCall("sudo reboot")
          [] a = "say_ip" ->
                 /\ Len(effects) = 3
                 /\ effects[2].op = "subprocess.check_output"
                 /\ effects[3].op = "say"
          [] a = "say to_repeat" ->
                 /\ Len(effects) = 2
                 /\ effects[2].op = "say"
          [] a = "set volume" ->
                 \/ /\ Len(effects) = 1
                    /\ raised = "IndexError"
                 \/ /\ Len(effects) = 3
                    /\ effects[2].op = "say"
                    /\ effects[3].op = "set_tts_volume"
          [] a = "volume_down" ->
                 /\ Len(effects) = 3
                 /\ effects[2].op = "set_tts_volume"
                 /\ effects[3] = Say("Ok, done")}

\* C13: classification of the lowercased text selects exactly one action,
\* that of the first matching rule in this order: equals "power off";
\* equals "reboot"; contains "ip address"; contains "repeat"; contains
\* "secondary volume to"; contains "secondary volume down"; contains
\* "secondary volume up"; otherwise none.  A text matching several rules
\* fires only the earliest, and the "ip address" and "secondary volume to"
\* rules match whether or not the text contains "what is" or "set".
C13_FirstMatchingRule ==
    IsRecognizedText(last_event) =>
        LET rule == C13_FirstRule(Lower(last_event.text))
        IN  IF rule = 0
            THEN effects = <<>> /\ C13_Fired = {}
            ELSE C13_Fired = {C13_ActionOf(rule)}

\* C13 witness: a text without "what is" that contains "ip address",
\* "repeat" and "secondary volume up" fired the report of the IP address.
C13_Witness ==
    /\ last_event = Recognized("repeatip addresssecondary volume up")
    /\ C13_Fired = {"say_ip"}

\* C14: after any sequence of recognized-text commands that starts from a
\* TTS volume in [0, 100], the TTS volume is an integer in [0, 100]: a
\* "secondary volume to N" with N > 100 does not leave it above 100 and no
\* command leaves it below 0.
C14_VolumeInRange == tts_volume \in 0..100

\* No rule before "secondary volume to" matches the lowercased text.
C15_NoEarlierRule(text) ==
    /\ text # "power off"
    /\ text # "reboot"
    /\ ~Contains("ip address", text)
    /\ ~Contains("repeat", text)

\* No whitespace-separated word of the text without '%' is all digits.
C15_NoNumber(text) ==
    LET words == Split(RemoveChar(text, "%"))
    IN  \A i \in 1..Len(words) : ~IsDigit(words[i])

C15_Case(ev) ==
    /\ IsRecognizedText(ev)
    /\ LET text == Lower(ev.text)
       IN  /\ C15_NoEarlierRule(text)
           /\ Contains("secondary volume to", text)
           /\ C15_NoNumber(text)

\* C15: when the recognized text contains "secondary volume to" (and no
\* earlier rule matches) but no all-digit word once '%' is removed, the
\* handler, after requesting stop_conversation(), raises an unhandled
\* error: no confirmation is spoken, the TTS volume is unchanged and the
\* loop stops handling events.
C15_ParseErrorEndsLoop ==
    C15_Case(last_event) =>
        /\ effects = <<StopConversation>>
        /\ raised = "IndexError"
        /\ tts_volume = volume_before
        /\ task \in {"unwinding", "finished"}

\* C15 witness: "150%reboot" is not a number; the loop has ended with the
\* turn's last event still waiting.
C15_Witness ==
    /\ last_event = Recognized(" secondary volume to 150%reboot")
    /\ effects = <<StopConversation>>
    /\ raised = "IndexError"
    /\ queue # <<>>
    /\ task = "finished"

C16_Case(ev) ==
    /\ IsRecognizedText(ev)
    /\ LET text == Lower(ev.text)
       IN  /\ C15_NoEarlierRule(text)
           /\ ~Contains("secondary volume to", text)
           /\ ~Contains("secondary volume down", text)
           /\ Contains("secondary volume up", text)

\* C16: "secondary volume up" (no earlier rule matching) runs the decrease
\* action: after the stop request the TTS volume v becomes max(0, v - 2),
\* so the command never raises the volume, and the dispatcher never calls
\* volume_up.
C16_UpLowers ==
    C16_Case(last_event) =>
        /\ tts_volume = (IF volume_before - 2 > 0 THEN volume_before - 2 ELSE 0)
        /\ tts_volume <= volume_before
        /\ effects = <<StopConversation, SetTtsVolume(tts_volume), Say("Ok, done")>>

\* C16 witness: at volume 99 "Secondary volume UP" left the volume at 97.
C16_Witness ==
    /\ last_event = Recognized("Secondary volume UP")
    /\ volume_before = 99
    /\ tts_volume = 97

C17_Case(ev) ==
    /\ IsRecognizedText(ev)
    /\ LET text == Lower(ev.text)
       IN  /\ C15_NoEarlierRule(text)
           /\ ~Contains("secondary volume to", text)
           /\ Contains("secondary volume down", text)

\* C17: "secondary volume down" changes the TTS volume v to v - 2 when
\* v >= 2 and to 0 when v < 2, and speaks the fixed confirmation exactly
\* once in both cases.
C17_DownFloorsAtZero ==
    C17_Case(last_event) =>
        /\ volume_before >= 2 => tts_volume = volume_before - 2
        /\ volume_before < 2 => tts_volume = 0
        /\ effects = <<StopConversation, SetTtsVolume(tts_volume), Say("Ok, done")>>

\* C17 witness: at volume 1 "secondary volume down" left the volume at 0.
C17_Witness ==
    /\ last_event = Recognized("secondary volume down")
    /\ volume_before = 1
    /\ tts_volume = 0
    /\ effects = <<StopConversation, SetTtsVolume(0), Say("Ok, done")>>

\* C18: the readiness flag is written only while handling
\* ON_START_FINISHED, ON_CONVERSATION_TURN_STARTED and
\* ON_CONVERSATION_TURN_FINISHED; every other event leaves it unchanged
\* and the button callback only reads it.
C18_FlagWrittenByLifecycleOnly ==
    [][can_start_conversation' # can_start_conversation =>
          /\ Handles
          /\ Head(queue).kind \in {ON_START_FINISHED,
                                   ON_CONVERSATION_TURN_STARTED,
                                   ON_CONVERSATION_TURN_FINISHED}
          /\ button' = button]_vars

\* C18 witness: within a turn the end of the utterance was handled and the
\* button callback made a request; the flag is still false.
C18_Witness ==
    /\ last_event.kind = ON_END_OF_UTTERANCE
    /\ last_lifecycle = ON_CONVERSATION_TURN_STARTED
    /\ button.requests > 0
    /\ ~can_start_conversation

C19_Ignored(ev) ==
    /\ ev.kind = ON_RECOGNIZING_SPEECH_FINISHED
    /\ ~ev.has_args \/ ~C12_Matches(Lower(ev.text))

\* C19: an ON_RECOGNIZING_SPEECH_FINISHED whose text matches no rule, or
\* that has no arguments, causes no action at all: no stop request, no
\* speech, no volume change, no OS command, and the status and the
\* readiness flag are unchanged.
C19_NoAction ==
    [][(Handles /\ C19_Ignored(Head(queue))) =>
          /\ effects' = <<>>
          /\ UNCHANGED <<tts_volume, status, can_start_conversation,
                         last_request, on_press, task, raised>>]_vars

\* C19 witness: "Power Offreboot" equals neither command; it was handled
\* within a turn and nothing was done.
C19_Witness ==
    /\ last_event = Recognized("Power Offreboot")
    /\ effects = <<>>
    /\ status = "listening"
    /\ ~can_start_conversation
    /\ last_request = NoRequest
    /\ task = "looping"

\* C20: every start or stop request issued by the button callback targets
\* an open Session: the callback is never invoked before the Session handle
\* is set, and no request is issued on the Session after the loop has
\* exited and the Session has been torn down, although the callback stays
\* registered.
C20_RequestsTargetOpenSession ==
    /\ button.pc # "AttributeError"
    /\ last_request.by = "button" => last_request.session_open
====
